---- MODULE Spec2Model ----
(***************************************************************************)
(* Model of gcg's Sampler (src/src/gcg/sampler/sampler.py): the fan-out    *)
(* layer that drives n_envs replay pools bound to n_envs environments.     *)
(* ReplayPool (gcg.sampler.replay_pool), VecEnvExecutor and the policy are *)
(* not part of the sources at hand; the pool is modelled from spec.md      *)
(* (RingStore, sections 3 and 4.1), the environment and the policy are     *)
(* collaborators whose results are chosen nondeterministically.            *)
(* Further parts: EvalOffline._load_data and _restore_train_policy (the    *)
(* offline bulk loader and its checkpoints), EpsilonGreedyStrategy         *)
(* (exploration), RWrccarEnv (the real-world car environment and its ROS   *)
(* callback), its ros_is_good check and its RolloutRosbag.                 *)
(***************************************************************************)
EXTENDS Integers, Sequences, FiniteSets, TLC

VARIABLES
    \* Sampler
    n_envs, assertions, replay_pools, curr_observations, calls, last, batch,
    \* EvalOffline
    folder, loaded, checkpoints,
    \* EpsilonGreedyStrategy
    schedule, explored,
    \* RWrccarEnv
    rccar, rolloutbag, env_pc, env_ret, env_last,
    \* RWrccarEnv: the messages received, and a ros_is_good result
    ros_msgs, ros_msg_times, now, is_good

\* Results handed back to the caller of a Sampler or EvalOffline operation.
resultVars == <<batch, folder, loaded, checkpoints>>

strategyVars == <<schedule, explored>>

rosVars == <<ros_msgs, ros_msg_times, now, is_good>>

envVars == <<rccar, rolloutbag, env_pc, env_ret, env_last, rosVars>>

vars == <<n_envs, assertions, replay_pools, curr_observations, calls, last,
          resultVars, strategyVars, envVars>>

(* ------------------------------ bounds --------------------------------- *)
MaxEnvs == 2
ReplayPoolSize == 4
MaxStep == 1
MaxEpLen == 3
MaxFiles == 2
MaxRollouts == 2
MaxRolloutLen == 2
MaxToAdd == 2
MaxIndex == 5
MaxBatch == 2
\* The policy's return horizon N and history length obs_history_len.
N == 1
obs_history_len == 1
\* add_exploration: the time steps 0..MaxT, the actions 0..MaxAction; the
\* uniform draw and the schedule value are multiples of 1 / Resolution.
MaxT == 1
MaxAction == 1
Resolution == 2
\* RWrccarEnv: the largest episode step count and number of bag files.
MaxEnvT == 2
MaxBags == 2
\* ROS time runs from 0 to MaxNow; dt is MaxAge time units.
MaxNow == 2
MaxAge == 1
\* The train-policy checkpoints are those of the iterations 0..MaxItr.
MaxItr == 2
\* The most messages of one topic written into one bag.
MaxWrites == 2

(* ------------------------------ helpers -------------------------------- *)
Min(a, b) == IF a <= b THEN a ELSE b

Max(a, b) == IF a >= b THEN a ELSE b

RECURSIVE SumSeq(_)
SumSeq(s) == IF s = <<>> THEN 0 ELSE Head(s) + SumSeq(Tail(s))

\* Python's floor division for non-negative operands.
FloorDiv(a, b) == a \div b

\* Python's seq[:d]: the first d items, and for a negative d all but the
\* last -d items.
PySlice(s, d) ==
    IF d >= 0 THEN SubSeq(s, 1, Min(d, Len(s)))
    ELSE SubSeq(s, 1, Max(0, Len(s) + d))

\* The value of an absent argument or field (Python's None).
None == -1

Range(s) == {s[k] : k \in 1..Len(s)}

(* --------------------- the replay pool (RingStore) --------------------- *)
\* A ring slot that holds no transition.
EmptySlot == [step |-> None, oenv |-> 0, eenv |-> 0, done |-> FALSE]

\* ReplayPool(..., size, ...): an empty ring of the given capacity.
NewPool(capacity) ==
    [capacity |-> capacity,
     slots |-> [k \in 0..(capacity - 1) |-> EmptySlot],
     head |-> 0, current_size |-> 0, open |-> FALSE,
     ep_len |-> 0, ep_head |-> 0, ep_size |-> 0]

\* ring_position = step_index mod capacity
RingPosition(p, step) == step % p.capacity

\* len(replay_pool)
PoolLen(p) == p.current_size

\* store_observation(step_index, observation): writes the observation half
\* of a new transition and advances head/current_size; the effect fields
\* stay undefined (eenv = 0) and the slot awaits its effect.
store_observation(p, step, observation) ==
    LET pos == RingPosition(p, step) IN
    [p EXCEPT !.slots[pos] = [step |-> step, oenv |-> observation.env,
                              eenv |-> 0, done |-> FALSE],
              !.head = (pos + 1) % p.capacity,
              !.current_size = Min(p.capacity, p.current_size + 1),
              !.open = TRUE,
              !.ep_len = p.ep_len + 1]

\* The ring position of the most recently opened transition.
LastPosition(p) == (p.head + p.capacity - 1) % p.capacity

\* store_effect(action, reward, done, ...): completes the most recently
\* opened transition; a done effect ends the episode, so the next
\* store_observation starts a new one.
store_effect(p, effect) ==
    LET pos == LastPosition(p)
        q == [p EXCEPT !.slots[pos].eenv = effect.env,
                       !.slots[pos].done = effect.done,
                       !.open = FALSE]
    IN IF effect.done
       THEN [q EXCEPT !.ep_len = 0, !.ep_head = q.head, !.ep_size = q.current_size]
       ELSE q

\* force_done(): marks the current open episode terminated.
force_done(p) ==
    IF p.current_size = 0 THEN p
    ELSE LET pos == LastPosition(p) IN
         [p EXCEPT !.slots[pos].done = (p.slots[pos].step # None),
                   !.ep_len = 0, !.ep_head = p.head, !.ep_size = p.current_size]

\* trash_current_rollout(): the number of steps of the in-progress episode.
trash_count(p) == p.ep_len

\* trash_current_rollout(): rewinds head/current_size to discard the
\* in-progress episode.
trash_current_rollout(p) ==
    [p EXCEPT !.head = p.ep_head, !.current_size = p.ep_size,
              !.open = FALSE, !.ep_len = 0]

\* store_rollout(start_index, rollout): ingests a pre-recorded episode, one
\* transition per entry of its dones array, without the two-phase protocol.
RECURSIVE store_rollout_from(_, _, _, _)
store_rollout_from(p, start, rollout, k) ==
    IF k > Len(rollout.dones) THEN p
    ELSE LET o == store_observation(p, start + k - 1, [env |-> 0, kind |-> "file"])
             e == store_effect(o, [env |-> 0, done |-> rollout.dones[k], rnd |-> FALSE])
         IN store_rollout_from(e, start, rollout, k + 1)

store_rollout(p, start, rollout) == store_rollout_from(p, start, rollout, 1)

\* The transitions a sample may draw from: the current_size most recent
\* ones, without the one that still awaits its effect.
SampleSize(p) == p.current_size - (IF p.open THEN 1 ELSE 0)

\* The ring position of the j-th oldest stored transition, by current_size
\* and wrap arithmetic.
WindowPosition(p, j) == (p.head + p.capacity - p.current_size + (j - 1)) % p.capacity

\* The j-th and the (j+1)-th stored transitions are contiguous steps of one
\* episode: consecutive step indices, and the j-th does not end its episode.
Linked(p, j) ==
    LET a == p.slots[WindowPosition(p, j)]
        b == p.slots[WindowPosition(p, j + 1)]
    IN a.step # None /\ b.step = a.step + 1 /\ ~a.done

\* The valid indices of sample: the obs_history_len-frame history and the
\* N-step return window of the index lie within stored contiguous steps of
\* one episode; with only_completed_episodes the window must end at or
\* before the latest done transition.
ValidIndices(p, only_completed_episodes) ==
    {j \in 1..SampleSize(p) :
        /\ j - obs_history_len + 1 >= 1
        /\ j + N <= SampleSize(p)
        /\ \A i \in (j - obs_history_len + 1)..(j + N - 1) : Linked(p, i)
        /\ only_completed_episodes =>
              \E d \in (j + N)..SampleSize(p) : p.slots[WindowPosition(p, d)].done}

\* can_sample(): enough transitions exist for at least one valid index.
can_sample(p) == ValidIndices(p, FALSE) # {}

\* ReplayPool.sample_pools(pools, batch_size, only_completed_episodes): the
\* batches of batch_size step indices that may be drawn from the valid
\* indices of the pools; sampling when there is none is InsufficientData.
sample_pools(pools, batch_size, only_completed_episodes) ==
    LET candidates ==
           UNION {{[pool |-> k,
                    step |-> pools[k].slots[WindowPosition(pools[k], j)].step] :
                      j \in ValidIndices(pools[k], only_completed_episodes)} :
                  k \in 1..Len(pools)}
    IN IF candidates = {}
       THEN [out |-> "insufficient_data", batches |-> {<<>>}]
       ELSE [out |-> "ok", batches |-> [1..batch_size -> candidates]]

(* ------------------------------ call log ------------------------------- *)
\* The rollout argument of a call that has none.
NoRollout == [observations |-> <<>>, actions |-> <<>>, rewards |-> <<>>,
              dones |-> <<>>, logprobs |-> <<>>, env_infos |-> <<>>]

\* One call issued by a Sampler operation to a pool, the policy, the action
\* space or the vectorised environment.
Call(op, pool, step, env, done, rnd, steps, rollout) ==
    [op |-> op, pool |-> pool, step |-> step, env |-> env, done |-> done,
     rnd |-> rnd, steps |-> steps, rollout |-> rollout]

PoolCall(op, pool) == Call(op, pool, None, 0, FALSE, FALSE, <<>>, NoRollout)

OtherCall(op) == PoolCall(op, 0)

\* The effect of one logged call on the pools.
ApplyCall(pools, c) ==
    CASE c.op = "store_observation" ->
            [pools EXCEPT ![c.pool] = store_observation(@, c.step, [env |-> c.env])]
      [] c.op = "store_effect" ->
            [pools EXCEPT ![c.pool] = store_effect(@, [env |-> c.env, done |-> c.done])]
      [] c.op = "force_done" ->
            [pools EXCEPT ![c.pool] = force_done(@)]
      [] c.op = "trash_current_rollout" ->
            [pools EXCEPT ![c.pool] = trash_current_rollout(@)]
      [] c.op = "store_rollout" ->
            [pools EXCEPT ![c.pool] = store_rollout(@, c.step, c.rollout)]
      [] OTHER -> pools

RECURSIVE ApplyCalls(_, _)
ApplyCalls(pools, cs) ==
    IF cs = <<>> THEN pools ELSE ApplyCalls(ApplyCall(pools, Head(cs)), Tail(cs))

\* The record of the operation that ran last.
Last(op, out, ret, step, rnd, dones, max, s0) ==
    [op |-> op, out |-> out, ret |-> ret, step |-> step, rnd |-> rnd,
     dones |-> dones, max |-> max, s0 |-> s0]

\* No operation is in progress or awaiting inspection by the caller.
NoOperation == Last("idle", "ok", None, None, FALSE, <<>>, None, None)

Idle == last = NoOperation

(* ------------------------------- Sampler ------------------------------- *)
\* Sampler.__len__
SamplerLen(pools) == SumSeq([k \in 1..Len(pools) |-> PoolLen(pools[k])])

\* InitPools with every pool given the whole replay_pool_size.
InitPools_FullSize(n, replay_pool_size) ==
    [k \in 1..n |-> NewPool(replay_pool_size)]

\* Sampler.__init__: one pool per environment, each of capacity
\* replay_pool_size // n_envs.
InitPools(n, replay_pool_size) ==
    [k \in 1..n |-> NewPool(FloorDiv(replay_pool_size, n))]

\* ObserveCalls with the observations paired with the pools in reverse order.
ObserveCalls_Reversed(observations, n, step) ==
    [k \in 1..n |-> Call("store_observation", k, step + (k - 1),
                         observations[n + 1 - k].env, FALSE, FALSE, <<>>, NoRollout)]

\* Sampler.step, first loop: pool i stores the current observation of
\* environment i under step + i (i counted from 0).
ObserveCalls(observations, n, step) ==
    [k \in 1..n |-> Call("store_observation", k, step + (k - 1),
                         observations[k].env, FALSE, FALSE, <<>>, NoRollout)]

\* StepUnsetCalls with the first pool storing an observation before the
\* missing attribute is read.
StepUnsetCalls_ObserveFirst(n, step) ==
    << Call("store_observation", 1, step, 1, FALSE, FALSE, <<>>, NoRollout) >>

\* Sampler.step before any reset: the first loop's zip reads
\* self._curr_observations, which __init__ never sets, before its body runs.
StepUnsetCalls(n, step) == <<>>

\* DecideCalls with the policy asked for actions in a random tick too.
DecideCalls_PolicyToo(n, step, take_random_actions) ==
    << Call("get_actions", 0, None, 0, FALSE, FALSE,
            [k \in 1..n |-> step + (k - 1)], NoRollout) >>
       \o (IF take_random_actions
           THEN [k \in 1..n |-> Call("action_space_sample", 0, None, k, FALSE, TRUE,
                                     <<>>, NoRollout)]
           ELSE <<>>)

\* Sampler.step, "get actions": one action_space.sample() per environment,
\* or one policy.get_actions call for the steps step .. step + n_envs - 1.
DecideCalls(n, step, take_random_actions) ==
    IF take_random_actions
    THEN [k \in 1..n |-> Call("action_space_sample", 0, None, k, FALSE, TRUE,
                              <<>>, NoRollout)]
    ELSE << Call("get_actions", 0, None, 0, FALSE, FALSE,
                 [k \in 1..n |-> step + (k - 1)], NoRollout) >>

\* NotifyCalls with np.all in place of np.any.
NotifyCalls_All(n, dones) ==
    IF \A k \in 1..n : dones[k] THEN << OtherCall("reset_get_action") >> ELSE <<>>

\* Sampler.step, "if np.any(dones): self._policy.reset_get_action()"
NotifyCalls(n, dones) ==
    IF \E k \in 1..n : dones[k] THEN << OtherCall("reset_get_action") >> ELSE <<>>

\* RecordCalls with every effect stored into the first pool.
RecordCalls_FirstPool(n, dones, take_random_actions) ==
    [k \in 1..n |-> Call("store_effect", 1, None, k, dones[k],
                         take_random_actions, <<>>, NoRollout)]

\* Sampler.step, last loop: pool i stores the action, reward and done of
\* environment i; est_value is NaN for a random action.
RecordCalls(n, dones, take_random_actions) ==
    [k \in 1..n |-> Call("store_effect", k, None, k, dones[k],
                         take_random_actions, <<>>, NoRollout)]

\* StepCalls with the effects recorded before the environments are stepped.
StepCalls_RecordFirst(observations, n, step, take_random_actions, out, dones) ==
    LET observe == ObserveCalls(observations, n, step)
        decide == DecideCalls(n, step, take_random_actions)
        envstep == << OtherCall("vec_env_step") >>
    IN CASE out \in {"policy_fault", "space_fault"} -> observe \o decide
         [] out = "env_fault" -> observe \o decide \o envstep
         [] OTHER -> observe \o decide \o RecordCalls(n, dones, take_random_actions)
                        \o envstep \o NotifyCalls(n, dones)

\* The calls of one Sampler.step in program order; a raise in
\* policy.get_actions, the NotImplementedError of a random tick whose action
\* space is neither Discrete nor Box, or a raise in vec_env.step ends the
\* tick there.
StepCalls(observations, n, step, take_random_actions, out, dones) ==
    LET observe == ObserveCalls(observations, n, step)
        decide == DecideCalls(n, step, take_random_actions)
        envstep == << OtherCall("vec_env_step") >>
    IN CASE out \in {"policy_fault", "space_fault"} -> observe \o decide
         [] out = "env_fault" -> observe \o decide \o envstep
         [] OTHER -> observe \o decide \o envstep \o NotifyCalls(n, dones)
                        \o RecordCalls(n, dones, take_random_actions)

\* Sampler.trash_current_rollouts: one trash_current_rollout per pool.
TrashCalls(n) == [k \in 1..n |-> PoolCall("trash_current_rollout", k)]

\* TrashReturn with "=" in place of "+=": the count of the last pool only.
TrashReturn_LastOnly(pools, n) == trash_count(pools[n])

\* Sampler.trash_current_rollouts: steps_removed, summed over the pools.
TrashReturn(pools, n) == SumSeq([k \in 1..n |-> trash_count(pools[k])])

\* ResetCalls without the force_done loop.
ResetCalls_NoForceDone(n) == << OtherCall("vec_env_reset") >>

\* Sampler.reset: vec_env.reset(), then force_done on every pool.
ResetCalls(n) ==
    << OtherCall("vec_env_reset") >> \o [k \in 1..n |-> PoolCall("force_done", k)]

(* ------------------------- Sampler.add_rollouts ------------------------ *)
\* A rollout record of r steps as the rollout source provides it: every
\* field has r entries and the episode ends at its last step.
Rollout(r) ==
    [observations |-> [k \in 1..r |-> k], actions |-> [k \in 1..r |-> k],
     rewards |-> [k \in 1..r |-> k], dones |-> [k \in 1..r |-> k = r],
     logprobs |-> [k \in 1..r |-> k], env_infos |-> [k \in 1..r |-> k]]

\* A file that mypickle.load cannot read.
CorruptFile == [ok |-> FALSE, rollouts |-> <<>>]

\* A readable file holding m rollouts of r steps each.
RolloutFile(m, r) == [ok |-> TRUE, rollouts |-> [i \in 1..m |-> Rollout(r)]]

\* The file lists add_rollouts may be given: up to MaxFiles files, each one
\* unreadable or holding m rollouts of r steps.
RolloutFileLists ==
    {[j \in 1..Len(oks) |-> IF oks[j] THEN RolloutFile(m, r) ELSE CorruptFile] :
        oks \in UNION {[1..f -> BOOLEAN] : f \in 1..MaxFiles},
        m \in 1..MaxRollouts, r \in 1..MaxRolloutLen}

\* The keys add_rollouts trims when it truncates a rollout.
TrimmedKeys == {"observations", "actions", "rewards", "dones", "logprobs"}

\* "for k in (...): rollout[k] = rollout[k][:diff]"
TrimRollout(rollout, diff) ==
    [f \in DOMAIN rollout |->
        IF f \in TrimmedKeys THEN PySlice(rollout[f], diff) ELSE rollout[f]]

\* "if max_to_add is not None and step + r_len >= max_to_add"
ReachesBudget(step, r_len, max_to_add) ==
    max_to_add # None /\ step + r_len >= max_to_add

\* The body of the inner loop of add_rollouts for one (rollout, pool) pair.
AddOneRollout(st, rollout, n, max_to_add) ==
    LET r_len == Len(rollout["dones"])
        trunc == ReachesBudget(st.step, r_len, max_to_add)
        stored == IF trunc THEN TrimRollout(rollout, max_to_add - st.step)
                  ELSE rollout
    IN [st EXCEPT !.step = st.step + Len(stored["dones"]),
                  !.cyc = (st.cyc % n) + 1,
                  !.calls = Append(st.calls,
                                   Call("store_rollout", st.cyc, st.step, 0,
                                        FALSE, FALSE, <<>>, stored)),
                  !.done_adding = trunc]

\* The inner loop of add_rollouts: zip(rollouts, itertools.cycle(pools)),
\* left as soon as done_adding is set.
RECURSIVE AddFileRollouts(_, _, _, _)
AddFileRollouts(st, rollouts, n, max_to_add) ==
    IF rollouts = <<>> \/ st.done_adding THEN st
    ELSE AddFileRollouts(AddOneRollout(st, Head(rollouts), n, max_to_add),
                         Tail(rollouts), n, max_to_add)

\* The outer loop of add_rollouts: a file that fails to load raises out of
\* add_rollouts; the loop is left as soon as done_adding is set.
RECURSIVE AddFiles(_, _, _, _)
AddFiles(st, files, n, max_to_add) ==
    IF files = <<>> \/ st.done_adding THEN st
    ELSE IF ~Head(files).ok THEN [st EXCEPT !.out = "load_error"]
    ELSE AddFiles(AddFileRollouts(st, Head(files).rollouts, n, max_to_add),
                  Tail(files), n, max_to_add)

\* AddRolloutsRun with the step counter started at 0 instead of at the
\* number of steps the pools already hold.
AddRolloutsRun_FromZero(pools, files, n, max_to_add) ==
    AddFiles([step |-> 0, cyc |-> 1, calls |-> <<>>,
              done_adding |-> FALSE, out |-> "ok"], files, n, max_to_add)

\* Sampler.add_rollouts(rollout_filenames, max_to_add)
AddRolloutsRun(pools, files, n, max_to_add) ==
    AddFiles([step |-> SamplerLen(pools), cyc |-> 1, calls |-> <<>>,
              done_adding |-> FALSE, out |-> "ok"], files, n, max_to_add)

(* ------------------- Sampler.can_sample and sample --------------------- *)
\* SamplerCanSample with np.all in place of np.any.
SamplerCanSample_All(pools) == \A k \in 1..Len(pools) : can_sample(pools[k])

\* Sampler.can_sample: np.any over the pools' can_sample().
SamplerCanSample(pools) == \E k \in 1..Len(pools) : can_sample(pools[k])

\* SamplerSample with the pools' error swallowed and an empty batch returned.
SamplerSample_Degraded(pools, batch_size, only_completed_episodes) ==
    LET run == sample_pools(pools, batch_size, only_completed_episodes) IN
    IF run.out = "ok" THEN run ELSE [out |-> "ok", batches |-> {<<>>}]

\* Sampler.sample: delegates to ReplayPool.sample_pools; an error of the
\* pools surfaces to the caller.
SamplerSample(pools, batch_size, only_completed_episodes) ==
    sample_pools(pools, batch_size, only_completed_episodes)

(* ----------------------- EvalOffline._load_data ------------------------ *)
\* The folders _load_data may be pointed at: the rollout files of
\* add_rollouts, or no .pkl file at all.
Folders == RolloutFileLists \cup {<<>>}

\* _load_data, first loop: "try: rollouts += mypickle.load(fname)['rollouts'];
\* num_load_success += 1 / except: num_load_fail += 1", in glob order.
RECURSIVE LoadFiles(_, _)
LoadFiles(st, files) ==
    IF files = <<>> THEN st
    ELSE LoadFiles(IF Head(files).ok
                   THEN [st EXCEPT !.rollouts = @ \o Head(files).rollouts,
                                   !.num_load_success = @ + 1]
                   ELSE [st EXCEPT !.num_load_fail = @ + 1],
                   Tail(files))

\* '{0:.2f}'.format(100. * num_load_success / float(num_load_success +
\* num_load_fail)): the percentage rounded to two decimals, in hundredths of
\* a percent (no tie occurs for fewer than 32 files).
SuccessPercent(num_load_success, num_load_fail) ==
    LET total == num_load_success + num_load_fail IN
    (2 * 10000 * num_load_success + total) \div (2 * total)

\* "size=int(1.1 * sum([len(r['dones']) for r in rollouts]))"
LoadedPoolSize(rollouts) ==
    FloorDiv(11 * SumSeq([j \in 1..Len(rollouts) |-> Len(rollouts[j]["dones"])]), 10)

\* _load_data, second loop: "replay_pool.store_rollout(curr_len, rollout);
\* curr_len += len(rollout['dones'])"
RECURSIVE StoreLoaded(_, _)
StoreLoaded(st, rollouts) ==
    IF rollouts = <<>> THEN st
    ELSE StoreLoaded(
            [st EXCEPT !.curr_len = st.curr_len + Len(Head(rollouts)["dones"]),
                       !.calls = Append(st.calls,
                                        Call("store_rollout", 1, st.curr_len, 0,
                                             FALSE, FALSE, <<>>, Head(rollouts)))],
            Tail(rollouts))

\* EvalOffline._load_data(folder) on an existing folder: the division of the
\* logged percentage raises ZeroDivisionError when no .pkl file was found.
LoadDataRun(files) ==
    LET ld == LoadFiles([rollouts |-> <<>>, num_load_success |-> 0,
                         num_load_fail |-> 0], files)
    IN IF ld.num_load_success + ld.num_load_fail = 0
       THEN [out |-> "zero_division", percent |-> None, size |-> 0, calls |-> <<>>]
       ELSE [out |-> "ok",
             percent |-> SuccessPercent(ld.num_load_success, ld.num_load_fail),
             size |-> LoadedPoolSize(ld.rollouts),
             calls |-> StoreLoaded([curr_len |-> 0, calls |-> <<>>], ld.rollouts).calls]

(* ----------------- EvalOffline._restore_train_policy ------------------- *)
\* The loop "while len(glob.glob(self._train_policy_file_name(itr) + '*')) > 0:
\* itr += 1" from itr = 0.
FirstMissingItr(files) ==
    CHOOSE itr \in 0..Cardinality(files) :
       itr \notin files /\ \A k \in 0..(itr - 1) : k \in files

\* The attributes the rowan EvalOffline.__init__ sets: the policy it creates
\* is kept as _model.
EvalOfflineAttributes == {"_params", "_env", "_model", "_replay_pool",
                          "_replay_holdout_pool"}

\* _restore_train_policy: "if itr > 0: self._policy.restore(... itr - 1 ...)".
RestoreTrainPolicyRun(files) ==
    LET itr == FirstMissingItr(files) IN
    IF itr = 0
    THEN [out |-> "ok", itr |-> itr, restored |-> None, calls |-> <<>>]
    ELSE IF "_policy" \in EvalOfflineAttributes
    THEN [out |-> "ok", itr |-> itr, restored |-> itr - 1,
          calls |-> << OtherCall("policy_restore") >>]
    ELSE [out |-> "attribute_error", itr |-> itr, restored |-> None, calls |-> <<>>]

(* ------------------------ EpsilonGreedyStrategy ------------------------ *)
\* add_exploration with "<=" in place of "<".
add_exploration_Leq(sched, t, action, draw, fresh) ==
    IF draw <= sched[t]
    THEN [sampled |-> TRUE, result |-> fresh]
    ELSE [sampled |-> FALSE, result |-> action]

\* EpsilonGreedyStrategy.add_exploration(t, action): draw is the value of
\* np.random.random() and sched[t] the value of schedule.value(t), both in
\* units of 1 / Resolution; fresh is what action_space.sample() returns.
add_exploration(sched, t, action, draw, fresh) ==
    IF draw < sched[t]
    THEN [sampled |-> TRUE, result |-> fresh]
    ELSE [sampled |-> FALSE, result |-> action]

(* ---------------------- RolloutRosbag and RWrccarEnv ------------------- *)
\* The topics of _ros_topics_and_types, one of each kind, in the order of
\* the constructor's list.
RosTopics == << "mode", "battery/low", "encoder/both", "collision/all", "cmd/vel" >>

\* _ros_msgs and _ros_msg_times with no entry.
NoMessages == [topic \in Range(RosTopics) |-> None]

\* A bag with nothing written into it.
NoWrites == [topic \in Range(RosTopics) |-> <<>>]

\* RolloutRosbag.is_open
BagIsOpen(bag) == bag.rosbag # None

\* open that always takes bag number 0.
LowestUnused_Zero(files) == 0

\* RolloutRosbag.open: the bag number is the lowest one no file has yet.
LowestUnused(files) ==
    CHOOSE num \in 0..Cardinality(files) :
       num \notin files /\ \A k \in 0..(num - 1) : k \in files

\* RolloutRosbag.open: creates the bag file, keeps it open for writing and
\* notes the time. written is what the bag being written holds: the stamps
\* of the messages written, by topic.
BagOpen(bag, time_now) ==
    LET bag_num == LowestUnused(bag.files) IN
    [rosbag |-> bag_num, files |-> bag.files \cup {bag_num},
     handles |-> bag.handles \cup {bag_num}, last_write |-> time_now,
     written |-> NoWrites]

\* RolloutRosbag.close, when the close of the bag it holds returns.
BagClose(bag) ==
    [bag EXCEPT !.handles = @ \ {bag.rosbag}, !.rosbag = None,
                !.last_write = None, !.written = NoWrites]

\* EvalOffline._dir is built from os.path.realpath, and the log file lies
\* under it: logger.dir is an absolute path.
LoggerDirIsAbsolute == TRUE

\* RolloutRosbag.trash: os.path.join(self._rosbag_dir, bag_fname) for the file
\* name of the bag, itself a path under logger.dir: an absolute name is
\* returned as it is, a relative one names no file.
RemovedFile(bag) == IF LoggerDirIsAbsolute THEN bag.rosbag ELSE None

\* RolloutRosbag.write of one topic
BagWrite(st, topic, msg, stamp, asserting) ==
    IF st.out # "ok" THEN st
    ELSE IF asserting /\ ~BagIsOpen(st.bag)
    THEN [st EXCEPT !.out = "assertion_error"]
    ELSE IF msg # None /\ stamp # None
    THEN IF ~BagIsOpen(st.bag) THEN [st EXCEPT !.out = "type_error"]
         ELSE IF stamp > st.bag.last_write
         THEN [st EXCEPT !.bag.written[topic] = Append(@, stamp)]
         ELSE st
    ELSE st

\* RolloutRosbag.write_all over the topics from position k on.
RECURSIVE BagWriteAll(_, _, _, _, _, _)
BagWriteAll(st, topics, k, msgs, times, asserting) ==
    IF k > Len(topics) THEN st
    ELSE BagWriteAll(BagWrite(st, topics[k], msgs[topics[k]], times[topics[k]],
                              asserting),
                     topics, k + 1, msgs, times, asserting)

\* One call on the RolloutRosbag; st is the bag and the outcome so far. A
\* call after a raise is never made. Each method asserts its precondition;
\* with assertions stripped, open replaces the bag it holds, and close and
\* trash fail on the missing bag. ctx holds whether asserts run, whether the
\* close of the bag held raises, the messages, their stamps and the time.
BagCall(st, op, ctx) ==
    IF st.out # "ok" THEN st
    ELSE CASE op = "open" ->
                 IF ctx.asserting /\ BagIsOpen(st.bag)
                 THEN [st EXCEPT !.out = "assertion_error"]
                 ELSE [st EXCEPT !.bag = BagOpen(st.bag, ctx.time_now)]
           [] op = "close" ->
                 IF ~BagIsOpen(st.bag)
                 THEN [st EXCEPT !.out = IF ctx.asserting THEN "assertion_error"
                                         ELSE "attribute_error"]
                 ELSE IF ctx.close_raises THEN [st EXCEPT !.out = "io_error"]
                 ELSE [st EXCEPT !.bag = BagClose(st.bag)]
           [] op = "trash" ->
                 IF ~BagIsOpen(st.bag)
                 THEN [st EXCEPT !.out = IF ctx.asserting THEN "assertion_error"
                                         ELSE "attribute_error"]
                 ELSE LET bag_fname == RemovedFile(st.bag)
                          closed == IF ctx.close_raises THEN st.bag
                                    ELSE BagClose(st.bag)
                      IN IF bag_fname \in closed.files
                         THEN [st EXCEPT !.bag = [closed EXCEPT !.files =
                                                     @ \ {bag_fname}]]
                         ELSE [bag |-> closed, out |-> "file_not_found"]
           [] OTHER ->   \* write_all
                 BagWriteAll(st, RosTopics, 1, ctx.msgs, ctx.times, ctx.asserting)

RECURSIVE BagCalls(_, _, _)
BagCalls(st, ops, ctx) ==
    IF ops = <<>> THEN st
    ELSE BagCalls(BagCall(st, Head(ops), ctx), Tail(ops), ctx)

\* What a call on the bag sees of its surroundings.
BagContext(asserting, close_raises, msgs, times, time_now) ==
    [asserting |-> asserting, close_raises |-> close_raises, msgs |-> msgs,
     times |-> times, time_now |-> time_now]

\* RWrccarEnv.reset, online: "if self._ros_rolloutbag.is_open: trash()", and
\* at its end "self._ros_rolloutbag.open()".
ResetBagCalls(bag) ==
    (IF BagIsOpen(bag) THEN << "trash" >> ELSE <<>>) \o << "open" >>

\* StepBagCalls without the close of the bag on done.
StepBagCalls_NeverClose(done) == << "write_all" >>

\* RWrccarEnv.step, online: write_all, and "if done: ... close()".
StepBagCalls(done) ==
    << "write_all" >> \o (IF done THEN << "close" >> ELSE <<>>)

\* RWrccarEnv._get_reward: one read of the collision flag.
GetReward(env) == IF env.is_collision THEN "collision_reward" ELSE "speed"

\* RWrccarEnv._get_done: another read of the collision flag.
GetDone(env) == env.is_collision

\* RWrccarEnv._set_vel: the velocity it publishes; one read of the flag.
SetVel(env, vel) == IF env.is_collision /\ vel > 0 THEN 0 ELSE vel

\* ros_msg_update that copies the collision message into the flag.
ros_msg_update_Unlatched(env, topic, data) ==
    [env EXCEPT !.is_collision = IF topic = "collision/all" THEN data = 1 ELSE @,
                !.collision_all = IF topic = "collision/all" THEN data ELSE @,
                !.collision_flip = IF topic = "collision/flip" THEN data = 1 ELSE @]

\* RWrccarEnv.ros_msg_update(msg, (topic,)): collision_all and collision_flip
\* are the data of the stored messages _ros_msgs[topic] of these two topics.
ros_msg_update(env, topic, data) ==
    [env EXCEPT !.is_collision = IF topic = "collision/all" /\ data = 1
                                 THEN TRUE ELSE @,
                !.collision_all = IF topic = "collision/all" THEN data ELSE @,
                !.collision_flip = IF topic = "collision/flip" THEN data = 1 ELSE @]

\* 'cmd' not in topic and 'collision' not in topic
IsRequired(topic) == topic \in {"mode", "battery/low", "encoder/both"}

\* The data a message of a topic can carry.
RosData(topic) ==
    CASE topic = "mode" -> {0, 2}
      [] topic = "battery/low" -> {0, 1}
      [] OTHER -> {0}

\* The loop of ros_is_good over the topics from position k on: "stale" when
\* it returns False, "key_error" when _ros_msg_times has no entry for a
\* topic it checks, "ok" when it finishes.
RECURSIVE CheckRates(_, _, _, _)
CheckRates(topics, k, times, time_now) ==
    IF k > Len(topics) THEN "ok"
    ELSE IF ~IsRequired(topics[k]) THEN CheckRates(topics, k + 1, times, time_now)
    ELSE IF times[topics[k]] = None THEN "key_error"
    ELSE IF time_now - times[topics[k]] > MaxAge THEN "stale"
    ELSE CheckRates(topics, k + 1, times, time_now)

\* RWrccarEnv.ros_is_good(): msgs and times are _ros_msgs (the data of each
\* message) and _ros_msg_times, None where the dict has no entry.
ros_is_good(msgs, times, time_now) ==
    LET rates == CheckRates(RosTopics, 1, times, time_now) IN
    IF rates = "key_error" THEN "key_error"
    ELSE IF rates = "stale" THEN "false"
    ELSE IF msgs["mode"] = None \/ msgs["mode"] # 2 THEN "false"
    ELSE IF msgs["battery/low"] = None \/ msgs["battery/low"] = 1 THEN "false"
    ELSE "true"

\* "assert (self.ros_is_good())"
AssertGood(good) ==
    CASE good = "true" -> "ok"
      [] good = "false" -> "assertion_error"
      [] OTHER -> good

RosIsGoodResults == {"true", "false", "key_error"}

\* The record of the environment operation that finished last; episode_done
\* tells whether a step has returned done since the last reset.
EnvLast(op, out, reward, done, was_open, after_done, bag_calls, episode_done) ==
    [op |-> op, out |-> out, reward |-> reward, done |-> done,
     was_open |-> was_open, after_done |-> after_done, bag_calls |-> bag_calls,
     episode_done |-> episode_done]

NoEnvOperation == EnvLast("none", "ok", "none", FALSE, FALSE, FALSE, <<>>, FALSE)

\* RWrccarEnv.__init__ and RolloutRosbag.__init__
NewRccar ==
    [is_collision |-> FALSE, t |-> 0, started |-> FALSE, collision_all |-> 0,
     collision_flip |-> FALSE]

NewRolloutbag ==
    [rosbag |-> None, files |-> {}, handles |-> {}, last_write |-> None,
     written |-> NoWrites]

\* What a step has read and computed so far: the velocity asked for, the
\* flag as _set_vel read it, the velocity published, the reward and done.
NoStepResult ==
    [cmd_vel |-> 0, collided |-> FALSE, vel |-> 0, reward |-> "none", done |-> FALSE]

(* -------------------- parts that are not constructed ------------------- *)
\* No batch has been returned by Sampler.sample.
NoBatch == [batch_size |-> 0, step_indices |-> <<>>]

\* No add_exploration call has been made.
NoExploration ==
    [t |-> None, action |-> None, draw |-> None, fresh |-> None,
     sampled |-> FALSE, result |-> None]

\* No EpsilonGreedyStrategy exists.
NoStrategy == schedule = <<>> /\ explored = NoExploration

\* No message has been received.
NoRos ==
    /\ ros_msgs = NoMessages
    /\ ros_msg_times = NoMessages
    /\ now = 0
    /\ is_good = "none"

\* No RWrccarEnv exists.
NoEnv ==
    /\ NoRos
    /\ rccar = NewRccar
    /\ rolloutbag = NewRolloutbag
    /\ env_pc = "absent"
    /\ env_ret = NoStepResult
    /\ env_last = NoEnvOperation

\* No Sampler and no EvalOffline exist.
NoSampler ==
    /\ n_envs = 0
    /\ replay_pools = <<>>
    /\ curr_observations = <<>>
    /\ calls = <<>>
    /\ last = NoOperation
    /\ batch = NoBatch
    /\ folder = <<>>
    /\ loaded = <<>>
    /\ checkpoints = {}

(* ------------------------------- actions ------------------------------- *)
\* Sampler.__init__: "assert(self._n_envs == 1)" lets construction succeed
\* with more than one environment only when Python runs with assertions
\* stripped (python -O); a pool needs a capacity of at least one slot.
Init ==
    /\ n_envs \in 1..MaxEnvs
    /\ assertions \in BOOLEAN
    /\ assertions => n_envs = 1
    /\ FloorDiv(ReplayPoolSize, n_envs) >= 1
    /\ replay_pools = InitPools(n_envs, ReplayPoolSize)
    /\ curr_observations = <<>>
    /\ calls = <<>>
    /\ last = NoOperation
    /\ batch = NoBatch
    /\ folder = <<>>
    /\ loaded = <<>>
    /\ checkpoints = {}
    /\ NoStrategy
    /\ NoEnv

\* A process that runs the EvalOffline script: it constructs no Sampler.
InitEvalOffline ==
    /\ n_envs = 0
    /\ assertions \in BOOLEAN
    /\ replay_pools = <<>>
    /\ curr_observations = <<>>
    /\ calls = <<>>
    /\ last = NoOperation
    /\ batch = NoBatch
    /\ folder = <<>>
    /\ loaded = <<>>
    /\ checkpoints = {}
    /\ NoStrategy
    /\ NoEnv

\* The process has constructed a Sampler.
SamplerExists == n_envs >= 1

Reset ==
    /\ Idle
    /\ curr_observations' = [k \in 1..n_envs |-> [env |-> k, kind |-> "reset"]]
    /\ calls' = ResetCalls(n_envs)
    /\ replay_pools' = ApplyCalls(replay_pools, calls')
    /\ last' = Last("reset", "ok", None, None, FALSE, <<>>, None, None)
    /\ UNCHANGED <<n_envs, assertions, resultVars, strategyVars, envVars>>

\* Sampler.step before any reset: self._curr_observations does not exist.
StepUnset(step, take_random_actions) ==
    /\ Idle
    /\ curr_observations = <<>>
    /\ calls' = StepUnsetCalls(n_envs, step)
    /\ replay_pools' = ApplyCalls(replay_pools, calls')
    /\ last' = Last("step", "attribute_error", None, step, take_random_actions,
                    <<>>, None, None)
    /\ UNCHANGED <<n_envs, assertions, curr_observations>>
    /\ UNCHANGED <<resultVars, strategyVars, envVars>>

Step(step, take_random_actions, out, dones) ==
    /\ Idle
    /\ curr_observations # <<>>
    /\ \A k \in 1..n_envs : replay_pools[k].ep_len < MaxEpLen
    /\ out = "policy_fault" => ~take_random_actions
    /\ out = "space_fault" => take_random_actions
    /\ out # "ok" => \A k \in 1..n_envs : ~dones[k]
    /\ calls' = StepCalls(curr_observations, n_envs, step, take_random_actions,
                          out, dones)
    /\ replay_pools' = ApplyCalls(replay_pools, calls')
    /\ curr_observations' =
          IF out = "ok" THEN [k \in 1..n_envs |-> [env |-> k, kind |-> "step"]]
          ELSE curr_observations
    /\ last' = Last("step", out, None, step, take_random_actions,
                    IF out = "ok" THEN dones ELSE <<>>, None, None)
    /\ UNCHANGED <<n_envs, assertions, resultVars, strategyVars, envVars>>

TrashCurrentRollouts ==
    /\ Idle
    /\ calls' = TrashCalls(n_envs)
    /\ replay_pools' = ApplyCalls(replay_pools, calls')
    /\ last' = Last("trash_current_rollouts", "ok",
                    TrashReturn(replay_pools, n_envs), None, FALSE, <<>>, None, None)
    /\ UNCHANGED <<n_envs, assertions, curr_observations>>
    /\ UNCHANGED <<resultVars, strategyVars, envVars>>

AddRollouts(files, max_to_add) ==
    LET run == AddRolloutsRun(replay_pools, files, n_envs, max_to_add) IN
    /\ Idle
    /\ calls' = run.calls
    /\ replay_pools' = ApplyCalls(replay_pools, calls')
    /\ run.step <= MaxIndex       \* cap on the step indices handed to the pools
    /\ \A k \in 1..n_envs : replay_pools'[k].ep_len <= MaxEpLen
    /\ last' = Last("add_rollouts", run.out, None, None, FALSE, <<>>,
                    max_to_add, SamplerLen(replay_pools))
    /\ UNCHANGED <<n_envs, assertions, curr_observations>>
    /\ UNCHANGED <<resultVars, strategyVars, envVars>>

\* Sampler.can_sample()
CanSample ==
    /\ Idle
    /\ calls' = [k \in 1..n_envs |-> PoolCall("can_sample", k)]
    /\ replay_pools' = ApplyCalls(replay_pools, calls')
    /\ last' = Last("can_sample", "ok",
                    IF SamplerCanSample(replay_pools) THEN 1 ELSE 0,
                    None, FALSE, <<>>, None, None)
    /\ UNCHANGED <<n_envs, assertions, curr_observations>>
    /\ UNCHANGED <<resultVars, strategyVars, envVars>>

\* Sampler.sample(batch_size); only_completed_episodes is read from the policy.
Sample(batch_size, only_completed_episodes) ==
    LET run == SamplerSample(replay_pools, batch_size, only_completed_episodes) IN
    /\ Idle
    /\ calls' = << OtherCall("sample_pools") >>
    /\ replay_pools' = ApplyCalls(replay_pools, calls')
    /\ \E b \in run.batches :
          batch' = [batch_size |-> batch_size, step_indices |-> b]
    /\ last' = Last("sample", run.out, None, None, FALSE, <<>>, None, None)
    /\ UNCHANGED <<n_envs, assertions, curr_observations, folder, loaded, checkpoints>>
    /\ UNCHANGED <<strategyVars, envVars>>

\* EvalOffline._load_data(folder): the pool it returns holds the rollouts of
\* the files that loaded; files is what glob finds under the folder.
LoadData(files) ==
    LET run == LoadDataRun(files) IN
    /\ Idle
    /\ ~SamplerExists
    /\ folder' = files
    /\ calls' = run.calls
    /\ loaded' = IF run.out = "ok"
                 THEN ApplyCalls(<< NewPool(run.size) >>, run.calls)
                 ELSE <<>>
    /\ last' = Last("load_data", run.out, run.percent, None, FALSE, <<>>, None, None)
    /\ UNCHANGED <<n_envs, assertions, replay_pools, curr_observations, batch>>
    /\ UNCHANGED <<checkpoints, strategyVars, envVars>>

\* EvalOffline._restore_train_policy(), the last step of the constructor;
\* files is the set of iterations that have a train-policy checkpoint file.
RestoreTrainPolicy(files) ==
    LET run == RestoreTrainPolicyRun(files) IN
    /\ Idle
    /\ ~SamplerExists
    /\ checkpoints' = files
    /\ calls' = run.calls
    /\ last' = Last("restore_train_policy", run.out, run.restored, run.itr, FALSE,
                    <<>>, None, None)
    /\ UNCHANGED <<n_envs, assertions, replay_pools, curr_observations>>
    /\ UNCHANGED <<batch, folder, loaded, strategyVars, envVars>>

\* The operation has returned (or raised) to the single-threaded caller and
\* its outcome has been seen; the record of its calls and the result handed
\* to the caller are dropped before the caller invokes the next operation.
Return ==
    /\ ~Idle
    /\ calls' = <<>>
    /\ last' = NoOperation
    /\ batch' = NoBatch
    /\ folder' = <<>>
    /\ loaded' = <<>>
    /\ checkpoints' = {}
    /\ UNCHANGED <<n_envs, assertions, replay_pools, curr_observations>>
    /\ UNCHANGED <<strategyVars, envVars>>

\* Online operation: the training loop resets, steps and, after a fault,
\* trashes the current rollouts.
Next ==
    \/ Return
    \/ Reset
    \/ \E step \in 0..MaxStep, rnd \in BOOLEAN : StepUnset(step, rnd)
    \/ \E step \in 0..MaxStep, rnd \in BOOLEAN,
          out \in {"ok", "policy_fault", "space_fault", "env_fault"},
          dones \in [1..n_envs -> BOOLEAN] : Step(step, rnd, out, dones)
    \/ TrashCurrentRollouts

Spec == Init /\ [][Next]_vars

(* ----------------------- exploration: actions -------------------------- *)
\* EpsilonGreedyStrategy.__init__: the schedule built from the endpoints
\* gives some value at every time step, possibly above 1.
InitStrategy ==
    /\ NoSampler
    /\ assertions = TRUE
    /\ NoEnv
    /\ schedule \in [0..MaxT -> 0..(Resolution + 1)]
    /\ explored = NoExploration

AddExploration(t, action, draw, fresh) ==
    LET run == add_exploration(schedule, t, action, draw, fresh) IN
    /\ explored' = [t |-> t, action |-> action, draw |-> draw,
                    fresh |-> IF run.sampled THEN fresh ELSE None,
                    sampled |-> run.sampled, result |-> run.result]
    /\ UNCHANGED <<n_envs, assertions, replay_pools, curr_observations, calls, last>>
    /\ UNCHANGED <<resultVars, schedule, envVars>>

NextExploration ==
    \E t \in 0..MaxT, action \in 0..MaxAction, draw \in 0..(Resolution - 1),
       fresh \in 0..MaxAction : AddExploration(t, action, draw, fresh)

SpecExploration == InitStrategy /\ [][NextExploration]_vars

(* ------------------------- RWrccarEnv: actions ------------------------- *)
\* RWrccarEnv.__init__ with ROS imported; the collision topics are taken to
\* have delivered a message. The results of ros_is_good() are inputs of the
\* operations; the other messages are not followed, and the close of a bag
\* does not raise.
InitEnv ==
    /\ NoSampler
    /\ assertions \in BOOLEAN
    /\ NoStrategy
    /\ NoRos
    /\ rccar = NewRccar
    /\ rolloutbag = NewRolloutbag
    /\ env_pc = "idle"
    /\ env_ret = NoStepResult
    /\ env_last = NoEnvOperation

\* RWrccarEnv.reset(), online, press_enter_on_reset unset. good_before and
\* good_after are the results of the two ros_is_good() calls. The reset waits
\* while the car is flipped; the callback thread can change nothing the rest
\* of the reset reads before "self._is_collision = False".
EnvReset(good_before, good_after) ==
    /\ env_pc = "idle"
    /\ IF assertions /\ good_before # "true"
       THEN /\ env_last' = EnvLast("reset", AssertGood(good_before), "none", FALSE,
                                   BagIsOpen(rolloutbag), FALSE, <<>>,
                                   env_last.episode_done)
            /\ UNCHANGED <<rccar, rolloutbag>>
       ELSE LET ops == ResetBagCalls(rolloutbag)
                run == BagCalls([bag |-> rolloutbag, out |-> "ok"], ops,
                                BagContext(assertions, FALSE, ros_msgs,
                                           ros_msg_times, now))
            IN /\ ~rccar.collision_flip
               /\ Cardinality(run.bag.files) <= MaxBags
               /\ rccar' = [rccar EXCEPT !.is_collision = FALSE, !.t = 0,
                                         !.started = TRUE]
               /\ rolloutbag' = run.bag
               /\ env_last' =
                     EnvLast("reset",
                             IF run.out # "ok" THEN run.out
                             ELSE IF assertions THEN AssertGood(good_after)
                             ELSE "ok",
                             "none", FALSE, BagIsOpen(rolloutbag),
                             env_last.op = "step" /\ env_last.out = "ok"
                                /\ env_last.done,
                             ops, FALSE)
    /\ UNCHANGED <<env_pc, env_ret>>
    /\ UNCHANGED <<n_envs, assertions, replay_pools, curr_observations, calls, last>>
    /\ UNCHANGED <<resultVars, strategyVars, rosVars>>

\* RWrccarEnv.step(action), online, up to the read of the observation:
\* "assert (self.ros_is_good())", the commands, and the sleep, which needs
\* the _last_step_time a reset sets.
EnvStepBegin(good, cmd_vel) ==
    /\ env_pc = "idle"
    /\ rccar.t < MaxEnvT
    /\ IF assertions /\ good # "true"
       THEN /\ env_last' = EnvLast("step", AssertGood(good), "none", FALSE,
                                   BagIsOpen(rolloutbag), FALSE, <<>>,
                                   env_last.episode_done)
            /\ UNCHANGED env_pc
       ELSE IF ~rccar.started
       THEN /\ env_last' = EnvLast("step", "type_error", "none", FALSE,
                                   BagIsOpen(rolloutbag), FALSE, <<>>,
                                   env_last.episode_done)
            /\ UNCHANGED env_pc
       ELSE /\ env_pc' = "get_reward"
            /\ UNCHANGED env_last
    /\ env_ret' = IF assertions /\ good # "true" THEN NoStepResult
                  ELSE [NoStepResult EXCEPT !.cmd_vel = cmd_vel,
                                            !.collided = rccar.is_collision,
                                            !.vel = SetVel(rccar, cmd_vel)]
    /\ UNCHANGED <<rccar, rolloutbag>>
    /\ UNCHANGED <<n_envs, assertions, replay_pools, curr_observations, calls, last>>
    /\ UNCHANGED <<resultVars, strategyVars, rosVars>>

\* RWrccarEnv.step: "reward = self._get_reward()"
EnvStepGetReward ==
    /\ env_pc = "get_reward"
    /\ env_ret' = [env_ret EXCEPT !.reward = GetReward(rccar)]
    /\ env_pc' = "get_done"
    /\ UNCHANGED <<rccar, rolloutbag, env_last>>
    /\ UNCHANGED <<n_envs, assertions, replay_pools, curr_observations, calls, last>>
    /\ UNCHANGED <<resultVars, strategyVars, rosVars>>

\* RWrccarEnv.step from "done = self._get_done()" to its return.
EnvStepGetDone ==
    LET done == GetDone(rccar)
        ops == StepBagCalls(done)
        run == BagCalls([bag |-> rolloutbag, out |-> "ok"], ops,
                        BagContext(assertions, FALSE, ros_msgs, ros_msg_times, now))
        closed == run.out = "ok" /\ done
    IN /\ env_pc = "get_done"
       /\ env_ret' = [env_ret EXCEPT !.done = done]
       /\ rccar' = [rccar EXCEPT !.t = IF closed THEN 0 ELSE rccar.t + 1]
       /\ rolloutbag' = run.bag
       /\ env_last' = EnvLast("step", run.out, env_ret.reward, done,
                              BagIsOpen(rolloutbag), FALSE, ops,
                              env_last.episode_done \/ closed)
       /\ env_pc' = "idle"
       /\ UNCHANGED <<n_envs, assertions, replay_pools, curr_observations, calls, last>>
       /\ UNCHANGED <<resultVars, strategyVars, rosVars>>

\* RWrccarEnv.ros_msg_update(msg, (topic,)), run by the subscriber's thread
\* at any moment; the topics other than these two change nothing modelled.
RosMsgUpdate(topic, data) ==
    /\ env_pc # "absent"
    /\ rccar' = ros_msg_update(rccar, topic, data)
    /\ UNCHANGED <<rolloutbag, env_pc, env_ret, env_last>>
    /\ UNCHANGED <<n_envs, assertions, replay_pools, curr_observations, calls, last>>
    /\ UNCHANGED <<resultVars, strategyVars, rosVars>>

NextEnv ==
    \/ \E good_before, good_after \in RosIsGoodResults :
          EnvReset(good_before, good_after)
    \/ \E good \in RosIsGoodResults, cmd_vel \in -1..1 : EnvStepBegin(good, cmd_vel)
    \/ EnvStepGetReward
    \/ EnvStepGetDone
    \/ \E topic \in {"collision/all", "collision/flip"}, data \in {0, 1} :
          RosMsgUpdate(topic, data)

SpecEnv == InitEnv /\ [][NextEnv]_vars

(* ----------------- RWrccarEnv: the messages and ros_is_good ------------ *)
\* RWrccarEnv.__init__: both dicts start empty.
InitRos ==
    /\ NoSampler
    /\ assertions = TRUE
    /\ NoStrategy
    /\ rccar = NewRccar
    /\ rolloutbag = NewRolloutbag
    /\ env_pc = "absent"
    /\ env_ret = NoStepResult
    /\ env_last = NoEnvOperation
    /\ NoRos

RosFrame ==
    /\ UNCHANGED <<n_envs, assertions, replay_pools, curr_observations, calls, last>>
    /\ UNCHANGED <<resultVars, strategyVars>>
    /\ UNCHANGED <<rccar, rolloutbag, env_pc, env_ret, env_last>>

\* ros_msg_update: "self._ros_msgs[topic] = msg" and its receipt time; two
\* messages of one topic never have the same receipt time.
Receive(topic, data) ==
    /\ ros_msg_times[topic] # now
    /\ ros_msgs' = [ros_msgs EXCEPT ![topic] = data]
    /\ ros_msg_times' = [ros_msg_times EXCEPT ![topic] = now]
    /\ is_good' = "none"
    /\ UNCHANGED now
    /\ RosFrame

\* ROS time passes.
Tick ==
    /\ now < MaxNow
    /\ now' = now + 1
    /\ is_good' = "none"
    /\ UNCHANGED <<ros_msgs, ros_msg_times>>
    /\ RosFrame

\* A call of ros_is_good().
RosIsGood ==
    /\ is_good' = ros_is_good(ros_msgs, ros_msg_times, now)
    /\ UNCHANGED <<ros_msgs, ros_msg_times, now>>
    /\ RosFrame

NextRos ==
    \/ \E k \in 1..Len(RosTopics) : \E data \in RosData(RosTopics[k]) :
          Receive(RosTopics[k], data)
    \/ Tick
    \/ RosIsGood

SpecRos == InitRos /\ [][NextRos]_vars

(* ------------------------ RolloutRosbag: actions ----------------------- *)
\* RolloutRosbag.__init__; its caller may run with or without asserts.
InitBag ==
    /\ NoSampler
    /\ assertions \in BOOLEAN
    /\ NoStrategy
    /\ NoRos
    /\ rccar = NewRccar
    /\ rolloutbag = NewRolloutbag
    /\ env_pc = "absent"
    /\ env_ret = NoStepResult
    /\ env_last = NoEnvOperation

\* One call of open(), close(), trash() or write_all(topics, msgs, stamps);
\* close_raises tells whether the close of the bag held raises.
BagOp(op, close_raises) ==
    LET run == BagCall([bag |-> rolloutbag, out |-> "ok"], op,
                       BagContext(assertions, close_raises, ros_msgs,
                                  ros_msg_times, now))
    IN /\ Cardinality(run.bag.files) <= MaxBags
       /\ \A k \in 1..Len(RosTopics) : Len(run.bag.written[RosTopics[k]]) <= MaxWrites
       /\ rolloutbag' = run.bag
       /\ env_last' = EnvLast(op, run.out, "none", FALSE, BagIsOpen(rolloutbag),
                              FALSE, << op >>, FALSE)
       /\ UNCHANGED <<n_envs, assertions, replay_pools, curr_observations, calls, last>>
       /\ UNCHANGED <<resultVars, strategyVars, rosVars>>
       /\ UNCHANGED <<rccar, env_pc, env_ret>>

NextBag ==
    \/ \E op \in {"open", "close", "trash", "write_all"}, close_raises \in BOOLEAN :
          BagOp(op, close_raises)
    \/ \E topic \in {"encoder/both", "collision/all"} : Receive(topic, 0)
    \/ Tick

SpecBag == InitBag /\ [][NextBag]_vars

\* Training: the loop steps the environments and, between ticks, asks
\* whether it can sample and draws batches from the pools.
NextSample ==
    \/ Return
    \/ Reset
    \/ \E step \in 0..MaxStep, rnd \in BOOLEAN,
          out \in {"ok", "policy_fault", "space_fault", "env_fault"},
          dones \in [1..n_envs -> BOOLEAN] : Step(step, rnd, out, dones)
    \/ TrashCurrentRollouts
    \/ CanSample
    \/ \E batch_size \in 1..MaxBatch, only_completed_episodes \in BOOLEAN :
          Sample(batch_size, only_completed_episodes)

SpecSample == Init /\ [][NextSample]_vars

\* Offline operation: pre-recorded rollouts are bulk-loaded, by
\* Sampler.add_rollouts into the Sampler's pools or by EvalOffline._load_data
\* into a pool of its own.
NextRollouts ==
    \/ Return
    \/ SamplerExists /\ Reset
    \/ SamplerExists /\ TrashCurrentRollouts
    \/ \E files \in RolloutFileLists,
          max_to_add \in {None} \cup 0..MaxToAdd :
             SamplerExists /\ AddRollouts(files, max_to_add)
    \/ \E files \in Folders : LoadData(files)
    \/ \E files \in SUBSET (0..MaxItr) : RestoreTrainPolicy(files)

SpecRollouts == (Init \/ InitEvalOffline) /\ [][NextRollouts]_vars

(* ------------------------- properties: stepping ------------------------ *)
\* The positions in the call log of the calls of one kind.
CallsOf(op) == {j \in 1..Len(calls) : calls[j].op = op}

\* The phase of a tick a call belongs to: 1 observe, 2 decide, 3 step,
\* 4 record; 0 for a call that belongs to none of them.
PhaseOf(c) ==
    CASE c.op = "store_observation" -> 1
      [] c.op \in {"get_actions", "action_space_sample"} -> 2
      [] c.op = "vec_env_step" -> 3
      [] c.op = "store_effect" -> 4
      [] OTHER -> 0

\* The two-phase calls a log issues on pool k, in order.
ProtocolOf(cs, k) ==
    SelectSeq(cs, LAMBDA c : c.pool = k /\ c.op \in {"store_observation", "store_effect"})

\* A sequence of calls that strictly alternates store_observation and
\* store_effect, starts with store_observation and ends with store_effect.
Alternates(cs) ==
    /\ Len(cs) % 2 = 0
    /\ \A j \in 1..Len(cs) :
          cs[j].op = IF j % 2 = 1 THEN "store_observation" ELSE "store_effect"

StepCompleted == last.op = "step" /\ last.out = "ok"

\* C1: within every Sampler.step tick the calls are ordered observe ->
\* decide -> step -> record: no call of a later phase precedes a call of an
\* earlier phase, vec_env.step is called at most once, and a completed tick
\* begins with a store_observation, steps the environments exactly once
\* after every pool's observation and the action request, and ends with a
\* store_effect, so that it is complete before the next tick begins.
C1_TickPhaseOrder ==
    last.op = "step" =>
       /\ \A j, k \in 1..Len(calls) :
             (j < k /\ PhaseOf(calls[j]) > 0 /\ PhaseOf(calls[k]) > 0)
                => PhaseOf(calls[j]) <= PhaseOf(calls[k])
       /\ Cardinality(CallsOf("vec_env_step")) <= 1
       /\ StepCompleted =>
             /\ Cardinality(CallsOf("store_observation")) = n_envs
             /\ Cardinality(CallsOf("get_actions"))
                   + Cardinality(CallsOf("action_space_sample")) >= 1
             /\ Cardinality(CallsOf("vec_env_step")) = 1
             /\ Cardinality(CallsOf("store_effect")) = n_envs
             /\ calls[1].op = "store_observation"
             /\ calls[Len(calls)].op = "store_effect"

C1_Witness ==
    /\ StepCompleted
    /\ n_envs = 2
    /\ Cardinality(CallsOf("store_effect")) = 2
    /\ Cardinality(CallsOf("get_actions")) = 1

\* C2: a Sampler.reset or a completed Sampler.step that starts with no pool
\* awaiting an effect issues, on every pool, store_observation and
\* store_effect in strict alternation starting with store_observation, and
\* leaves no pool awaiting an effect; hence over any sequence of resets and
\* completed steps the two calls alternate on every pool.
C2_ObservationEffectAlternate ==
    [][ ( /\ last'.op \in {"step", "reset"}
          /\ last'.op = "step" => last'.out = "ok"
          /\ \A k \in 1..n_envs : ~replay_pools[k].open )
        => \A k \in 1..n_envs :
              /\ Alternates(ProtocolOf(calls', k))
              /\ last'.op = "step" => Len(ProtocolOf(calls', k)) = 2
              /\ ~replay_pools'[k].open ]_vars

C2_Witness ==
    /\ StepCompleted
    /\ n_envs = 2
    /\ \A k \in 1..n_envs : Len(ProtocolOf(calls, k)) = 2 /\ ~replay_pools[k].open
    /\ \E k \in 1..n_envs : replay_pools[k].ep_len = 2

\* C3: after any sequence of Sampler operations, a step aborted by a raise
\* of the policy or of the environment included, no pool holds a transition
\* whose observation is stored and whose effect is not (no pool awaits an
\* effect), so sample can never meet that intermediate state.
C3_NoPoolAwaitsEffect ==
    \A k \in 1..n_envs : ~replay_pools[k].open

\* C4: when vec_env.step raises during Sampler.step, the in-progress
\* rollout of every pool is discarded through trash_current_rollout, called
\* after the failed vec_env.step, before the fault surfaces to the caller.
C4_FaultTrashesRollout ==
    (last.op = "step" /\ last.out = "env_fault") =>
       \A k \in 1..n_envs :
          \E j \in CallsOf("trash_current_rollout") :
             /\ calls[j].pool = k
             /\ \A i \in CallsOf("vec_env_step") : i < j

\* C5: pool ownership is exclusive per environment slot: in Sampler.step(step)
\* pool i stores only the observation of environment i, under step index
\* step + i, and only the effect produced for environment i; the policy is
\* told the same step index step + i for slot i; no pool ever holds data of
\* another environment; there are always n_envs pools.
C5_PoolOwnership ==
    /\ Len(replay_pools) = n_envs
    /\ \A k \in 1..n_envs : \A pos \in 0..(replay_pools[k].capacity - 1) :
          LET slot == replay_pools[k].slots[pos] IN
          slot.step # None => slot.oenv = k /\ slot.eenv \in {0, k}
    /\ last.op = "step" =>
          \A j \in 1..Len(calls) :
             /\ calls[j].op = "store_observation" =>
                   /\ calls[j].env = calls[j].pool
                   /\ calls[j].step = last.step + (calls[j].pool - 1)
             /\ calls[j].op = "store_effect" => calls[j].env = calls[j].pool
             /\ calls[j].op = "get_actions" =>
                   /\ Len(calls[j].steps) = n_envs
                   /\ \A k \in 1..n_envs : calls[j].steps[k] = last.step + (k - 1)

C5_Witness ==
    /\ StepCompleted
    /\ n_envs = 2
    /\ last.step = 1
    /\ \E j \in CallsOf("store_observation") : calls[j].pool = 2 /\ calls[j].step = 2
    /\ \E j \in CallsOf("get_actions") : calls[j].steps = <<1, 2>>
    /\ replay_pools[2].slots[RingPosition(replay_pools[2], 2)].eenv = 2

\* C6: in every Sampler.step tick policy.reset_get_action is called exactly
\* once if at least one environment reported done in that tick, and not at
\* all otherwise.
C6_ResetGetActionOnce ==
    last.op = "step" =>
       Cardinality(CallsOf("reset_get_action")) =
          IF StepCompleted /\ \E k \in 1..n_envs : last.dones[k] THEN 1 ELSE 0

C6_Witness ==
    /\ StepCompleted
    /\ n_envs = 2
    /\ last.dones[1] /\ ~last.dones[2]
    /\ Cardinality(CallsOf("reset_get_action")) = 1

\* C7: every Sampler.reset replaces the current observations with the reset
\* observations of the environments and calls force_done on every pool, so
\* that every pool's latest transition ends its episode and no episode is
\* left open across the reset.
C7_ResetClosesEpisodes ==
    last.op = "reset" =>
       /\ curr_observations = [k \in 1..n_envs |-> [env |-> k, kind |-> "reset"]]
       /\ \A k \in 1..n_envs :
             /\ \E j \in CallsOf("force_done") : calls[j].pool = k
             /\ replay_pools[k].ep_len = 0
             /\ LET slot == replay_pools[k].slots[LastPosition(replay_pools[k])] IN
                (replay_pools[k].current_size > 0 /\ slot.step # None) => slot.done

C7_Witness ==
    /\ last.op = "reset"
    /\ n_envs = 2
    /\ \A k \in 1..n_envs :
          LET slot == replay_pools[k].slots[LastPosition(replay_pools[k])] IN
          slot.step # None /\ slot.done /\ slot.eenv = k

\* C8: Sampler.trash_current_rollouts returns the sum over all pools of the
\* steps each pool removed; a pool that holds n steps of a not-yet-terminated
\* episode removes exactly n, its head and current_size return to their
\* values before those steps, and no ring slot is changed, so transitions of
\* terminated episodes are not removed.
C8_TrashReturnsSum ==
    [][ last'.op = "trash_current_rollouts" =>
          /\ last'.ret = SumSeq([k \in 1..n_envs |-> replay_pools[k].ep_len])
          /\ \A k \in 1..n_envs :
                /\ replay_pools'[k].head = replay_pools[k].ep_head
                /\ replay_pools'[k].current_size = replay_pools[k].ep_size
                /\ replay_pools'[k].ep_len = 0
                /\ replay_pools'[k].slots = replay_pools[k].slots ]_vars

C8_Witness ==
    /\ last.op = "trash_current_rollouts"
    /\ n_envs = 2
    /\ last.ret = 2 * MaxEpLen
    /\ \A k \in 1..n_envs : replay_pools[k].current_size = 0

\* The calls of a tick outside its decide phase, the est_value mark of
\* every stored effect cleared.
OutsideDecide(cs) ==
    LET rest == SelectSeq(cs, LAMBDA c : PhaseOf(c) # 2)
    IN [j \in 1..Len(rest) |-> [rest[j] EXCEPT !.rnd = FALSE]]

C26_StepBeforeReset ==
    curr_observations = <<>> =>
       /\ replay_pools = InitPools(n_envs, ReplayPoolSize)
       /\ last.op = "step" => last.out = "attribute_error" /\ calls = <<>>

C26_Witness ==
    /\ curr_observations = <<>>
    /\ last.op = "step"
    /\ last.out = "attribute_error"
    /\ n_envs = 2

(* ---------------------- properties: bulk ingestion --------------------- *)
\* The number of steps each call of the log hands to store_rollout.
StoredLens ==
    [j \in 1..Len(calls) |->
        IF calls[j].op = "store_rollout" THEN Len(calls[j].rollout["dones"]) ELSE 0]

\* C9: every rollout add_rollouts hands to store_rollout, a truncated one
\* included, has per-field arrays (observations, actions, rewards, dones,
\* logprobs, env_infos) of one and the same length.
C9_EqualFieldLengths ==
    \A j \in CallsOf("store_rollout") :
       \A f, g \in DOMAIN calls[j].rollout :
          Len(calls[j].rollout[f]) = Len(calls[j].rollout[g])

\* C10: add_rollouts(files, max_to_add = M) on pools holding s0 steps
\* ingests at most max(0, M - s0) steps in total, the running total never
\* exceeds M (nor s0, when the pools already hold more than M), and no
\* rollout is stored after the one that reaches M.
C10_BudgetRespected ==
    (last.op = "add_rollouts" /\ last.max # None) =>
       /\ SumSeq(StoredLens) <= Max(0, last.max - last.s0)
       /\ \A j \in CallsOf("store_rollout") :
             /\ calls[j].step + StoredLens[j] <= Max(last.max, last.s0)
             /\ calls[j].step + StoredLens[j] >= last.max => j = Len(calls)

\* C11: bulk ingestion assigns start indices sequentially: the start index
\* of every store_rollout call of add_rollouts or _load_data is the initial
\* total (the steps the pools hold when add_rollouts starts, 0 in _load_data)
\* plus the lengths stored by all earlier store_rollout calls, so the index
\* range of each rollout begins where the range of the one before it ends.
C11_SequentialStartIndices ==
    last.op \in {"add_rollouts", "load_data"} =>
       LET initial == IF last.op = "load_data" THEN 0 ELSE last.s0 IN
       \A j \in CallsOf("store_rollout") :
          /\ calls[j].step = initial + SumSeq(SubSeq(StoredLens, 1, j - 1))
          /\ j > 1 => calls[j].step = calls[j - 1].step + StoredLens[j - 1]

C11_Witness ==
    /\ last.op = "add_rollouts"
    /\ last.s0 = 1
    /\ Len(calls) = 2
    /\ calls[1].step = 1 /\ StoredLens[1] = 2
    /\ calls[2].step = 3 /\ StoredLens[2] = 2

\* C12: add_rollouts skips a rollout file that cannot be read: it never
\* ends in the load error of a file, whatever files it is given.
C12_CorruptFileSkipped ==
    last.op = "add_rollouts" => last.out = "ok"

(* -------------------- properties: EvalOffline._load_data --------------- *)
\* The rollouts of the readable files of a folder, in load order.
RECURSIVE ReadableRollouts(_)
ReadableRollouts(files) ==
    IF files = <<>> THEN <<>>
    ELSE (IF Head(files).ok THEN Head(files).rollouts ELSE <<>>)
            \o ReadableRollouts(Tail(files))

\* C13: _load_data completes for every set of .pkl files; with s files
\* loading and f failing it reports 100 * s / (s + f) to two decimals; it
\* stores every rollout of every file that loaded, in load order, into a pool
\* whose capacity is at least the number of loaded steps, so that every
\* loaded step is still in the pool.
C13_LoadDataCompletes ==
    last.op = "load_data" =>
       LET s == Cardinality({j \in 1..Len(folder) : folder[j].ok})
           f == Cardinality({j \in 1..Len(folder) : ~folder[j].ok})
           rollouts == ReadableRollouts(folder)
           total == SumSeq([j \in 1..Len(rollouts) |-> Len(rollouts[j]["dones"])])
       IN /\ last.out = "ok"
          /\ 2 * (last.ret * (s + f) - 10000 * s) <= s + f
          /\ 2 * (10000 * s - last.ret * (s + f)) <= s + f
          /\ [j \in 1..Len(calls) |-> calls[j].rollout] = rollouts
          /\ Len(loaded) = 1
          /\ loaded[1].capacity >= total
          /\ loaded[1].current_size = total
          /\ \A i \in 0..(total - 1) :
                loaded[1].slots[RingPosition(loaded[1], i)].step = i

\* C13 restricted to folders that hold at least one .pkl file.
C13_NonEmptyFolder == folder # <<>> => C13_LoadDataCompletes

\* C27: _restore_train_policy completes; with checkpoints of the iterations
\* 0..m-1 and none of m > 0 it restores the checkpoint of m-1, and with none
\* of iteration 0 it restores nothing.
C27_RestoresLatestCheckpoint ==
    last.op = "restore_train_policy" =>
       /\ last.out = "ok"
       /\ last.step \notin checkpoints
       /\ \A k \in 0..(last.step - 1) : k \in checkpoints
       /\ last.ret = IF last.step > 0 THEN last.step - 1 ELSE None

\* The same when no checkpoint of iteration 0 exists.
C27_NoCheckpoint == 0 \notin checkpoints => C27_RestoresLatestCheckpoint

(* ------------------------- properties: sampling ------------------------ *)
\* The pool holds at least obs_history_len + N contiguous steps of a single
\* episode, open or closed.
HasContiguousSteps(p) ==
    \E a \in 1..SampleSize(p) :
       /\ a + (obs_history_len + N) - 1 <= SampleSize(p)
       /\ \A i \in a..(a + (obs_history_len + N) - 2) : Linked(p, i)

\* The ring positions of the current_size most recent transitions of a pool.
StoredPositions(p) == {WindowPosition(p, j) : j \in 1..p.current_size}

\* C14: Sampler.sample called while Sampler.can_sample() is false ends in
\* InsufficientData, returns no batch and leaves every pool as it was; a
\* sample that succeeds returns a batch of exactly batch_size indices.
C14_SampleInsufficientData ==
    [][ last'.op = "sample" =>
          /\ replay_pools' = replay_pools
          /\ ~SamplerCanSample(replay_pools) =>
                /\ last'.out = "insufficient_data"
                /\ batch'.step_indices = <<>>
          /\ last'.out = "ok" => Len(batch'.step_indices) = batch'.batch_size ]_vars

C14_Witness ==
    /\ last.op = "sample"
    /\ last.out = "insufficient_data"
    /\ batch.step_indices = <<>>
    /\ batch.batch_size = 2
    /\ replay_pools[1].current_size = 1

C20_RewardDoneConsistent ==
    (env_last.op = "step" /\ env_last.out = "ok") =>
       (env_last.done <=> env_last.reward = "collision_reward")

RosGoodCondition ==
    /\ \A k \in 1..Len(RosTopics) :
          IsRequired(RosTopics[k]) =>
             /\ ros_msg_times[RosTopics[k]] # None
             /\ now - ros_msg_times[RosTopics[k]] <= MaxAge
    /\ ros_msgs["mode"] = 2
    /\ ros_msgs["battery/low"] \notin {None, 1}

\* C22: ros_is_good returns True exactly under that condition and False in
\* every other case: it never raises.
C22_RosIsGoodNeverRaises ==
    is_good # "none" => is_good = IF RosGoodCondition THEN "true" ELSE "false"

\* The same for the calls made once every required topic has been received.
C22_AllReceived ==
    (\A k \in 1..Len(RosTopics) :
        IsRequired(RosTopics[k]) => ros_msg_times[RosTopics[k]] # None)
       => C22_RosIsGoodNeverRaises

(* ----------------------- properties: RolloutRosbag --------------------- *)
\* C23: a bag is open after an open() that returned, and not open after a
\* close() or a trash() that returned, whether or not the close of the bag
\* held raised.
C23_OpenUntilCloseOrTrash ==
    /\ (env_last.op = "open" /\ env_last.out = "ok") => BagIsOpen(rolloutbag)
    /\ (env_last.op \in {"close", "trash"} /\ env_last.out = "ok") =>
          ~BagIsOpen(rolloutbag)

\* A call that fails its assertion leaves the bag as it was.
C23_FailedAssertChangesNothing ==
    [][env_last'.out = "assertion_error" => rolloutbag' = rolloutbag]_vars

\* C24: an open() that returns creates a file under the lowest number no
\* existing bag file has, so it writes over no file; a trash() that returns
\* removes the file of the bag it held, which the open() of that bag created,
\* and no other; nothing else creates or removes a bag file.
C24_BagFilesKept ==
    [][LET opened == rolloutbag'.rosbag
           holds == rolloutbag.rosbag
       IN /\ (env_last'.op = "open" /\ env_last'.out = "ok" /\ env_last' # env_last)
                => /\ opened \notin rolloutbag.files
                   /\ \A k \in 0..(opened - 1) : k \in rolloutbag.files
                   /\ rolloutbag'.files = rolloutbag.files \cup {opened}
          /\ rolloutbag'.files # rolloutbag.files =>
                \/ /\ env_last'.op = "open"
                   /\ env_last'.out = "ok"
                   /\ rolloutbag'.files = rolloutbag.files \cup {opened}
                   /\ opened \notin rolloutbag.files
                \/ /\ env_last'.op = "trash"
                   /\ env_last'.out = "ok"
                   /\ holds \in rolloutbag.files
                   /\ rolloutbag'.files = rolloutbag.files \ {holds}
          /\ (env_last'.op = "trash" /\ env_last'.out = "ok" /\ env_last' # env_last)
                => rolloutbag'.files = rolloutbag.files \ {holds}
          /\ rolloutbag'.handles \ rolloutbag.handles \subseteq
                rolloutbag'.files \ rolloutbag.files
      ]_vars

C24_Witness ==
    /\ env_last.op = "trash"
    /\ env_last.out = "ok"
    /\ rolloutbag.files = {0}
    /\ ~BagIsOpen(rolloutbag)
    /\ rolloutbag.handles = {}

\* No stamp occurs twice in a sequence of stamps.
WrittenOnce(stamps) ==
    \A i, j \in 1..Len(stamps) : stamps[i] = stamps[j] => i = j

\* C25: the open bag holds each received message of a topic at most once,
\* and only messages received strictly after the bag was opened.
C25_WrittenAtMostOnce ==
    BagIsOpen(rolloutbag) =>
       \A k \in 1..Len(RosTopics) :
          LET stamps == rolloutbag.written[RosTopics[k]] IN
          /\ WrittenOnce(stamps)
          /\ \A i \in 1..Len(stamps) : stamps[i] > rolloutbag.last_write

\* The part that holds: a message is written only if it was received
\* strictly after the bag was opened, and a topic never received is skipped.
C25_OnlyLaterStamps ==
    BagIsOpen(rolloutbag) =>
       \A k \in 1..Len(RosTopics) :
          LET stamps == rolloutbag.written[RosTopics[k]] IN
          /\ \A i \in 1..Len(stamps) : stamps[i] > rolloutbag.last_write
          /\ ros_msgs[RosTopics[k]] = None => stamps = <<>>

====
